---- MODULE Spec2Model ----
(***************************************************************************)
(* nlch: natural-language request -> one shell command -> confirmation-    *)
(* gated execution -> one LLM-assisted retry.                              *)
(*                                                                         *)
(* Strings are sequences of one-character strings, so that the string      *)
(* functions of the sanitizer and of the danger classifier are computed    *)
(* character by character as the Go code computes them.                    *)
(*                                                                         *)
(* Specifications:                                                         *)
(*   Spec         func main from flag parsing to exit, with Executor.Run   *)
(*                and the goroutine of update.NotifyUpdateAvailable        *)
(*   SpecClean    the sanitizer cleanCommand on bounded raw inputs         *)
(*   SpecDanger   shell.IsDangerousCommand on bounded command texts        *)
(*   SpecProvider GenerateCommand of the five HTTP backends                *)
(*   SpecUpdate   the daily update check over successive invocations       *)
(*   SpecRegistry the provider registry and the registration from config   *)
(*   SpecPrompt   prompt.BuildPrompt called repeatedly on one context      *)
(*   SpecGather   gatherContext with its plugin loop                       *)
(*   SpecExec     the subprocess of Executor.Run and the terminal          *)
(***************************************************************************)
EXTENDS Naturals, Integers, Sequences, FiniteSets, TLC

VARIABLES
    \* ---- main pipeline (Spec) ----
    pc,             \* position in main / Executor.Run
    phase,          \* "primary" | "corrected": which command main is handling
    dryRun,         \* --dry-run flag
    yesSure,        \* --yes-im-sure flag (bypass)
    cleaned,        \* cleanCommand(response) of the current phase, before the danger decision
    cmd,            \* the command string handed to Executor.Run
    requireConfirm, \* the requireConfirm argument of Executor.Run
    generated,      \* sequence of [err, text]: the results of prov.GenerateCommand so far
    spawned,        \* sequence of command strings handed to bash -c
    spawnErr,       \* for each spawned subprocess, whether command.Run() returned an error
    prompts,        \* sequence of [cmd, resp]: confirmation prompts shown and the line read
    runErr,         \* err returned by the last Executor.Run
    stdout,         \* stdout returned by the last Executor.Run
    stderr,         \* stderr returned by the last Executor.Run
    exitCode,       \* process exit status once pc = "done" (-1 while running)
    exitReason,     \* why the process ended
    runCalls,       \* number of Executor.Run calls so far
    \* ---- main before the pipeline: flags, config, provider selection ----
    showVersion,    \* --version flag
    updateFlag,     \* --update flag
    checkUpdate,    \* --check-update flag
    nArgs,          \* flag.NArg()
    providerFlag,   \* --provider flag ("" when not given)
    loadEnv,        \* the files config.Load meets: [home, user, proj]
    pathsTried,     \* config.Load: pathsTried at return
    errorsTried,    \* config.Load: errorsTried at return
    cfg,            \* the *Config returned by config.Load
    registry,       \* the provider registry: name -> provider
    providerName,   \* the selected provider name
    \* ---- background update check of this invocation ----
    checkDue,       \* what ShouldCheckForUpdates returns
    bgState,        \* goroutine of NotifyUpdateAvailable: "none" | "running" | "checked" | "finished"
    bgNotice,       \* the goroutine wrote the update notice to standard error
    stampTouched,   \* the goroutine's UpdateLastCheckTime re-created .last_update_check
    \* ---- sanitizer (SpecClean) ----
    raw,            \* the raw response given to cleanCommand
    shape,          \* how raw was built: "plain" | "block" | "inline"
    tag,            \* language tag of a fenced raw
    body,           \* command line of a fenced raw
    cstep,          \* number of cleanCommand applications done (0..2)
    out1,           \* cleanCommand(raw)
    out2,           \* cleanCommand(cleanCommand(raw))
    \* ---- shell.IsDangerousCommand on bounded inputs (SpecDanger) ----
    dcmd,           \* the command text
    dstep,          \* "input" | "classified" | "varied"
    dres,           \* IsDangerousCommand(dcmd)
    dvar,           \* an upper/lower-case variant of dcmd
    dvres,          \* IsDangerousCommand(dvar)
    \* ---- Provider.GenerateCommand of the HTTP backends (SpecProvider) ----
    backend,        \* which backend
    cfgModel,       \* the backend's configured Model (default_model)
    optModel,       \* opts.Model, the per-call override
    httpResult,     \* what the HTTP exchange gave: [kind, text]
    pstep,          \* "call" | "returned"
    reqModel,       \* the model named in the outbound request
    genCmd,         \* the returned command
    genErr,         \* whether an error was returned
    endCmd,         \* main: cleanCommand of the returned command
    \* ---- update checks over several invocations (SpecUpdate) ----
    uclock,         \* hours since the start
    ustamp,         \* modification time of .last_update_check, -1 when missing
    uproc,          \* "none" | "running": an nlch process
    ugor,           \* "none" | "running" | "checked": its update goroutine
    uchecks,        \* the times at which an update check was initiated
    \* ---- the provider registry on its own (SpecRegistry) ----
    rreg,           \* the registry map
    rlog,           \* the providers passed to Register, in call order
    rcfg,           \* cfg.Providers: backend name -> [key, url]
    rstep,          \* "calls": Register calls | "start", "configured": registration from config
    rgot,           \* the last Get: [name, p, ok, at]
    rlist,          \* the last List
    \* ---- prompt.BuildPrompt on its own (SpecPrompt) ----
    pctx,           \* the context passed to BuildPrompt
    pinput,         \* the user request passed to BuildPrompt
    pouts,          \* the prompts returned so far, each a sequence of pieces
    \* ---- gatherContext on its own (SpecGather) ----
    genv,           \* what the environment answers: ReadDir, git, the plugin registry
    gstep,          \* position in gatherContext
    gctx,           \* the context being built
    gtodo,          \* the plugins of plugin.List() the loop has still to visit
    gcalls,         \* the plugins whose Gather has been invoked, in order
    \* ---- the subprocess of Executor.Run (SpecExec) ----
    xstep,          \* "running" | "exited" | "returned" | "prompted"
    xwritten,       \* what the subprocess has written: sequence of [stream, piece]
    xstdoutBuf,     \* stdoutBuf of Run
    xstderrBuf,     \* stderrBuf of Run
    xterm,          \* what the terminal has shown: sequence of [stream, text]
    xerr,           \* whether command.Run() returned an error
    xret,           \* what Run returned
    xprompt         \* the correction prompt main built

mainVars  == <<pc, phase, dryRun, yesSure, cleaned, cmd, requireConfirm, generated,
               spawned, spawnErr, prompts, runErr, stdout, stderr, exitCode, exitReason>>
startVars == <<showVersion, updateFlag, checkUpdate, nArgs, providerFlag, loadEnv,
               pathsTried, errorsTried, cfg, registry, providerName>>
bgVars    == <<checkDue, bgState, bgNotice, stampTouched>>
cleanVars == <<raw, shape, tag, body, cstep, out1, out2>>
dangerVars == <<dcmd, dstep, dres, dvar, dvres>>
provVars  == <<backend, cfgModel, optModel, httpResult, pstep, reqModel, genCmd, genErr,
               endCmd>>
updVars   == <<uclock, ustamp, uproc, ugor, uchecks>>
regVars   == <<rreg, rlog, rcfg, rstep, rgot, rlist>>
promptVars == <<pctx, pinput, pouts>>
gatherVars == <<genv, gstep, gctx, gtodo, gcalls>>
execVars == <<xstep, xwritten, xstdoutBuf, xstderrBuf, xterm, xerr, xret, xprompt>>
vars      == <<mainVars, runCalls, startVars, bgVars, cleanVars, dangerVars, provVars,
               updVars, regVars, promptVars, gatherVars, execVars>>

\* everything the steps of Executor.Run and of the pipeline part of main leave alone
notPipeline == <<startVars, bgVars, cleanVars, dangerVars, provVars, updVars, regVars,
                promptVars, gatherVars, execVars>>
\* the variables of the other specifications, which main never touches
restVars    == <<cleanVars, dangerVars, provVars, updVars, regVars,
                promptVars, gatherVars, execVars>>
\* everything cleanCommand alone leaves alone
notClean    == <<mainVars, runCalls, startVars, bgVars, dangerVars, provVars, updVars, regVars,
                promptVars, gatherVars, execVars>>
\* everything IsDangerousCommand alone leaves alone
notDanger   == <<mainVars, runCalls, startVars, bgVars, cleanVars, provVars, updVars, regVars,
                promptVars, gatherVars, execVars>>
\* everything a backend's GenerateCommand alone leaves alone
notProvider == <<mainVars, runCalls, startVars, bgVars, cleanVars, dangerVars, updVars, regVars,
                promptVars, gatherVars, execVars>>
\* everything the registry functions alone leave alone
notRegistry == <<mainVars, runCalls, startVars, bgVars, cleanVars, dangerVars, provVars,
                 updVars, promptVars, gatherVars, execVars>>
\* everything the update check bookkeeping alone leaves alone
notUpdate   == <<mainVars, runCalls, startVars, bgVars, cleanVars, dangerVars, provVars, regVars,
                promptVars, gatherVars, execVars>>

----------------------------------------------------------------------------
(* Bounds of the model *)

\* longest unstructured raw response given to cleanCommand
MaxLen == 5
\* longest command line placed inside a fence
MaxBody == 2
\* longest language tag after an opening fence
MaxTag == 1

----------------------------------------------------------------------------
(* Go strings package, on sequences of characters *)

\* the characters newline and backtick (a backtick cannot be written inside a
\* TLA+ string literal, so the character is named)
NL == "\n"
BT == "backtick"

\* unicode.IsSpace restricted to ASCII
IsSpace(c) == c \in {" ", NL, "\t", "\r"}

RECURSIVE TrimLeftSpace(_)
TrimLeftSpace(s) ==
    IF s = <<>> THEN s
    ELSE IF IsSpace(Head(s)) THEN TrimLeftSpace(Tail(s)) ELSE s

RECURSIVE TrimRightSpace(_)
TrimRightSpace(s) ==
    IF s = <<>> THEN s
    ELSE IF IsSpace(s[Len(s)]) THEN TrimRightSpace(SubSeq(s, 1, Len(s) - 1)) ELSE s

\* strings.TrimSpace
TrimSpace(s) == TrimRightSpace(TrimLeftSpace(s))

RECURSIVE TrimLeftChar(_, _)
TrimLeftChar(s, c) ==
    IF s = <<>> THEN s
    ELSE IF Head(s) = c THEN TrimLeftChar(Tail(s), c) ELSE s

RECURSIVE TrimRightChar(_, _)
TrimRightChar(s, c) ==
    IF s = <<>> THEN s
    ELSE IF s[Len(s)] = c THEN TrimRightChar(SubSeq(s, 1, Len(s) - 1), c) ELSE s

\* strings.Trim(s, c) for a one-character cutset
Trim(s, c) == TrimRightChar(TrimLeftChar(s, c), c)

\* strings.HasPrefix
HasPrefix(s, p) == Len(s) >= Len(p) /\ SubSeq(s, 1, Len(p)) = p

\* strings.Split(s, "\n"): always at least one element
RECURSIVE Split(_)
Split(s) ==
    IF \A i \in 1..Len(s) : s[i] # NL THEN <<s>>
    ELSE LET i == CHOOSE k \in 1..Len(s) :
                      s[k] = NL /\ \A j \in 1..(k - 1) : s[j] # NL
         IN  <<SubSeq(s, 1, i - 1)>> \o Split(SubSeq(s, i + 1, Len(s)))

\* strings.Join(lines, "\n")
RECURSIVE Join(_)
Join(lines) ==
    IF lines = <<>> THEN <<>>
    ELSE IF Len(lines) = 1 THEN lines[1]
    ELSE lines[1] \o <<NL>> \o Join(Tail(lines))

----------------------------------------------------------------------------
(* cleanCommand *)

Fence == <<BT, BT, BT>>
Hash  == <<"#">>

\* the fence removal of cleanCommand: lines 99-111
StripFence(c) ==
    IF HasPrefix(c, Fence)
    THEN LET l0 == Split(c)
             l1 == IF Len(l0) > 1 THEN Tail(l0) ELSE l0
             l2 == IF Len(l1) > 0 /\ HasPrefix(l1[Len(l1)], Fence)
                   THEN SubSeq(l1, 1, Len(l1) - 1) ELSE l1
         IN  TrimSpace(Join(l2))
    ELSE c

\* the line selection of cleanCommand: lines 118-126; dflt is returned when
\* no line qualifies
RECURSIVE FirstCommandLine(_, _)
FirstCommandLine(lines, dflt) ==
    IF lines = <<>> THEN dflt
    ELSE LET line == TrimSpace(Head(lines))
         IN  IF line # <<>> /\ ~HasPrefix(line, Hash) THEN line
             ELSE FirstCommandLine(Tail(lines), dflt)

cleanCommand(s) ==
    LET c1 == TrimSpace(s)
    IN  IF c1 = <<>> THEN c1
        ELSE LET c2 == StripFence(c1)
                 c3 == TrimSpace(Trim(c2, BT))
             IN  FirstCommandLine(Split(c3), c3)

----------------------------------------------------------------------------
(* Danger classification *)

DangerPrefix == <<"d", "a", "n", "g", "e", "r", ":", " ">>

UpperCase == <<"A", "B", "C", "D", "E", "F", "G", "H", "I", "J", "K", "L", "M",
               "N", "O", "P", "Q", "R", "S", "T", "U", "V", "W", "X", "Y", "Z">>
LowerCase == <<"a", "b", "c", "d", "e", "f", "g", "h", "i", "j", "k", "l", "m",
               "n", "o", "p", "q", "r", "s", "t", "u", "v", "w", "x", "y", "z">>

\* strings.ToLower
ToLower(s) ==
    [i \in 1..Len(s) |->
        IF \E k \in 1..Len(UpperCase) : UpperCase[k] = s[i]
        THEN LowerCase[CHOOSE k \in 1..Len(UpperCase) : UpperCase[k] = s[i]]
        ELSE s[i]]

\* strings.Contains
Contains(s, sub) ==
    \E i \in 0..(Len(s) - Len(sub)) : SubSeq(s, i + 1, i + Len(sub)) = sub

dangerousCommands ==
    << <<"r", "m">>, <<"d", "d">>, <<"m", "k", "f", "s">>,
       <<"s", "h", "u", "t", "d", "o", "w", "n">>, <<"r", "e", "b", "o", "o", "t">>,
       <<"i", "n", "i", "t", " ", "0">>, <<"h", "a", "l", "t">> >>

\* mutant of IsDangerousCommand: the command is not lower-cased
IsDangerousCommand_NoLower(c) ==
    LET lower == c
    IN  \E k \in 1..Len(dangerousCommands) : Contains(lower, dangerousCommands[k])

\* shell.IsDangerousCommand
IsDangerousCommand(c) ==
    LET lower == ToLower(c)
    IN  \E k \in 1..Len(dangerousCommands) : Contains(lower, dangerousCommands[k])

\* mutant of DecidePrimary: confirmation asked for dangerous commands only
DecidePrimary_ConfirmDangerOnly(c, bypass) ==
    LET isDanger == HasPrefix(c, DangerPrefix)
    IN  [refuse         |-> isDanger /\ ~bypass,
         cmd            |-> IF bypass /\ isDanger
                            THEN SubSeq(c, Len(DangerPrefix) + 1, Len(c)) ELSE c,
         requireConfirm |-> ~bypass /\ isDanger]

\* mutant of DecidePrimary: the refusal of a dangerous primary command is missing
DecidePrimary_NoRefusal(c, bypass) ==
    LET isDanger == HasPrefix(c, DangerPrefix)
    IN  [refuse         |-> FALSE,
         cmd            |-> IF bypass /\ isDanger
                            THEN SubSeq(c, Len(DangerPrefix) + 1, Len(c)) ELSE c,
         requireConfirm |-> ~bypass /\ ~isDanger]

\* main, primary command: isDanger, the refusal, the prefix removal and
\* requireConfirm
DecidePrimary(c, bypass) ==
    LET isDanger == HasPrefix(c, DangerPrefix)
    IN  [refuse         |-> isDanger /\ ~bypass,
         cmd            |-> IF bypass /\ isDanger
                            THEN SubSeq(c, Len(DangerPrefix) + 1, Len(c)) ELSE c,
         requireConfirm |-> ~bypass /\ ~isDanger]

\* mutant of DecideCorrected: the corrected command is never prompted for
DecideCorrected_NoConfirm(c, bypass) ==
    LET isCorrectedDanger == HasPrefix(c, DangerPrefix)
    IN  [refuse         |-> isCorrectedDanger /\ ~bypass,
         cmd            |-> IF bypass /\ isCorrectedDanger
                            THEN SubSeq(c, Len(DangerPrefix) + 1, Len(c)) ELSE c,
         requireConfirm |-> FALSE]

\* mutant of DecideCorrected: the refusal of a dangerous corrected command is missing
DecideCorrected_NoRefusal(c, bypass) ==
    LET isCorrectedDanger == HasPrefix(c, DangerPrefix)
    IN  [refuse         |-> FALSE,
         cmd            |-> IF bypass /\ isCorrectedDanger
                            THEN SubSeq(c, Len(DangerPrefix) + 1, Len(c)) ELSE c,
         requireConfirm |-> ~bypass /\ ~isCorrectedDanger]

\* main, corrected command: isCorrectedDanger, the refusal, the prefix removal
\* and requireCorrectedConfirm
DecideCorrected(c, bypass) ==
    LET isCorrectedDanger == HasPrefix(c, DangerPrefix)
    IN  [refuse         |-> isCorrectedDanger /\ ~bypass,
         cmd            |-> IF bypass /\ isCorrectedDanger
                            THEN SubSeq(c, Len(DangerPrefix) + 1, Len(c)) ELSE c,
         requireConfirm |-> ~bypass /\ ~isCorrectedDanger]

\* mutant of ValidCorrected: the empty corrected command is not rejected
ValidCorrected_Unchecked(c) == TRUE

\* main: strings.TrimSpace(correctedCmd) == "" is fatal
ValidCorrected(c) == TrimSpace(c) # <<>>

----------------------------------------------------------------------------
(* Environment of the pipeline: provider, standard input, subprocess *)

CmdLs == <<"l", "s">>

\* raw texts a provider may return
Responses ==
    { CmdLs,
      DangerPrefix \o CmdLs,
      DangerPrefix \o DangerPrefix \o CmdLs,
      <<"r", "m", " ", "x">>,
      <<"R", "M", " ", "x">>,
      <<>>,
      <<"#", "x">>,
      Fence \o <<NL>> \o CmdLs \o <<NL>> \o Fence }

\* prov.GenerateCommand returns (string, error)
ProviderResults ==
    {[err |-> FALSE, text |-> r] : r \in Responses} \cup {[err |-> TRUE, text |-> <<>>]}

\* lines the user may type at the confirmation prompt; ok = FALSE is
\* scanner.Scan() returning false (end of input), after which Text() is empty
ReadResults ==
    {[ok |-> TRUE, line |-> l] :
        l \in {<<>>, <<"y">>, <<"n">>, <<"N">>, <<"n", "o">>, <<" ", "n">>}}
    \cup {[ok |-> FALSE, line |-> <<>>]}

\* command.Run() of bash -c cmd: exit zero, non-zero exit, failure to run
SubprocessResults ==
    { [err |-> FALSE, out |-> <<"o">>, errout |-> <<>>],
      [err |-> TRUE,  out |-> <<"o">>, errout |-> <<"e">>],
      [err |-> TRUE,  out |-> <<>>,    errout |-> <<>>] }

----------------------------------------------------------------------------
(* Spec: main and Executor.Run *)

\* ---- config.Load ----

NilConfig == [nil |-> TRUE, default_provider |-> ""]

\* configs a file may parse to (default_provider unset, or naming a backend)
Configs ==
    {[nil |-> FALSE, default_provider |-> d] : d \in {"", "echo"}}

\* no such path: the home directory is unknown
NoPath == [state |-> "nopath", cfg |-> NilConfig]

\* what os.ReadFile and yaml.Unmarshal make of a config file
FileStates ==
    {[state |-> "unreadable", cfg |-> NilConfig],
     [state |-> "unparsable", cfg |-> NilConfig]}
    \cup {[state |-> "ok", cfg |-> c] : c \in Configs}

\* mutant of Load: the project-level file is preferred when it parses
Load_ProjectFirst(home, user, proj) ==
    LET p1 == IF home THEN <<"user">> ELSE <<>>
        e1 == IF home /\ user.state # "ok"
              THEN <<[path |-> "user", why |-> user.state]>> ELSE <<>>
        p2 == Append(p1, "project")
        e2 == IF proj.state # "ok"
              THEN Append(e1, [path |-> "project", why |-> proj.state]) ELSE e1
    IN  IF home /\ user.state = "ok" /\ proj.state # "ok"
        THEN [cfg |-> user.cfg, err |-> FALSE, pathsTried |-> p1, errorsTried |-> e1]
        ELSE [cfg |-> IF proj.state = "ok" THEN proj.cfg ELSE NilConfig,
              err |-> proj.state # "ok", pathsTried |-> p2, errorsTried |-> e2]

\* config.Load; home is whether os.UserHomeDir succeeded, user and proj are
\* the states of ~/.config/nlch/config.yaml and ./nlch.yaml; pathsTried and
\* errorsTried are the two local slices at the return
Load(home, user, proj) ==
    LET p1 == IF home THEN <<"user">> ELSE <<>>
        e1 == IF home /\ user.state # "ok"
              THEN <<[path |-> "user", why |-> user.state]>> ELSE <<>>
        p2 == Append(p1, "project")
        e2 == IF proj.state # "ok"
              THEN Append(e1, [path |-> "project", why |-> proj.state]) ELSE e1
    IN  IF home /\ user.state = "ok"
        THEN [cfg |-> user.cfg, err |-> FALSE, pathsTried |-> p1, errorsTried |-> e1]
        ELSE [cfg |-> IF proj.state = "ok" THEN proj.cfg ELSE NilConfig,
              err |-> proj.state # "ok", pathsTried |-> p2, errorsTried |-> e2]

notLoaded ==
    /\ loadEnv = [home |-> FALSE, user |-> NoPath, proj |-> NoPath]
    /\ pathsTried = <<>> /\ errorsTried = <<>> /\ cfg = NilConfig

noGoroutine ==
    /\ bgState = "none" /\ bgNotice = FALSE /\ stampTouched = FALSE

idleDanger ==
    /\ dcmd = <<>> /\ dstep = "idle" /\ dres = FALSE /\ dvar = <<>> /\ dvres = FALSE

NoExchange == [kind |-> "none", text |-> <<>>]

idleProvider ==
    /\ backend = "none" /\ cfgModel = <<>> /\ optModel = <<>>
    /\ httpResult = NoExchange /\ pstep = "idle"
    /\ reqModel = <<>> /\ genCmd = <<>> /\ genErr = FALSE /\ endCmd = <<>>

idleUpdate ==
    /\ uclock = 0 /\ ustamp = -1 /\ uproc = "none" /\ ugor = "none" /\ uchecks = <<>>

\* ---- provider registry ----

\* a provider value: what its Name() returns, and which instance it is
NilProvider  == [name |-> "", inst |-> -1]
EchoProvider == [name |-> "echo", inst |-> 0]

\* make(map[string]Provider)
EmptyRegistry == [n \in {} |-> NilProvider]

\* mutant of Register: a name already present keeps its provider
Register_KeepsFirst(reg, p) ==
    [n \in DOMAIN reg \cup {p.name} |-> IF n \in DOMAIN reg THEN reg[n] ELSE p]

\* provider.Register: registry[p.Name()] = p
Register(reg, p) ==
    [n \in DOMAIN reg \cup {p.name} |-> IF n = p.name THEN p ELSE reg[n]]

\* provider.List: the providers in the registry, in no particular order
List(reg) == {reg[n] : n \in DOMAIN reg}

NoGet == [name |-> "", p |-> NilProvider, ok |-> FALSE, at |-> -1]

idleRegistry ==
    /\ rreg = EmptyRegistry /\ rlog = <<>> /\ rcfg = EmptyRegistry /\ rstep = "idle"
    /\ rgot = NoGet /\ rlist = {}

\* an ExecutionContext not yet built
NoContext == [WorkingDir |-> "", Files |-> <<>>, GitInfo |-> <<>>, Extra |-> <<>>, set |-> FALSE]

\* no return of Executor.Run yet
NoReturn == [stdout |-> <<>>, stderr |-> <<>>, err |-> FALSE, set |-> FALSE]

idlePrompt == pctx = NoContext /\ pinput = "" /\ pouts = <<>>

idleGather ==
    /\ genv = <<>> /\ gstep = "idle" /\ gctx = NoContext /\ gtodo = <<>> /\ gcalls = <<>>

idleExec ==
    /\ xstep = "idle" /\ xwritten = <<>> /\ xstdoutBuf = <<>> /\ xstderrBuf = <<>>
    /\ xterm = <<>> /\ xerr = FALSE /\ xret = NoReturn /\ xprompt = <<>>

idleClean ==
    /\ raw = <<>> /\ shape = "none" /\ tag = <<>> /\ body = <<>>
    /\ cstep = 0 /\ out1 = <<>> /\ out2 = <<>>

\* the provider registry at the start of main: main's init registers the
\* test backend; nothing in main registers the configured backends
Registries == {Register(EmptyRegistry, EchoProvider)}

\* values of the --provider flag
ProviderFlags == {"", "echo", "ghost"}

Init ==
    /\ idleClean /\ idleDanger /\ idleProvider /\ idleUpdate /\ idleRegistry
    /\ idlePrompt /\ idleGather /\ idleExec
    /\ pc = "flags" /\ phase = "primary"
    /\ showVersion \in BOOLEAN /\ updateFlag \in BOOLEAN /\ checkUpdate \in BOOLEAN
    /\ nArgs \in {0, 1}
    /\ dryRun \in BOOLEAN /\ yesSure \in BOOLEAN
    /\ providerFlag \in ProviderFlags
    /\ registry \in Registries
    /\ notLoaded /\ providerName = ""
    /\ checkDue \in BOOLEAN /\ noGoroutine
    /\ cleaned = <<>> /\ cmd = <<>> /\ requireConfirm = FALSE /\ generated = <<>>
    /\ spawned = <<>> /\ spawnErr = <<>> /\ prompts = <<>> /\ runErr = FALSE
    /\ stdout = <<>> /\ stderr = <<>> /\ exitCode = -1 /\ exitReason = "none"
    /\ runCalls = 0

\* os.Exit(code) / log.Fatalf (code 1) / return from main (code 0)
Exit(code, reason) ==
    /\ pc' = "done"
    /\ exitCode' = code
    /\ exitReason' = reason

\* main: flag.Parse and the flags that end the process at once
ParseFlags ==
    /\ pc = "flags"
    /\ IF showVersion THEN Exit(0, "version")
       ELSE IF updateFlag
       THEN \E failed \in BOOLEAN :
                IF failed THEN Exit(1, "update_failed") ELSE Exit(0, "update_done")
       ELSE IF checkUpdate
       THEN \E failed \in BOOLEAN :
                IF failed THEN Exit(1, "check_update_failed")
                          ELSE Exit(0, "check_update_done")
       ELSE IF nArgs < 1 THEN Exit(1, "usage")
       ELSE pc' = "notify" /\ UNCHANGED <<exitCode, exitReason>>
    /\ UNCHANGED <<phase, dryRun, yesSure, cleaned, cmd, requireConfirm, generated,
                   spawned, spawnErr, prompts, runErr, stdout, stderr, runCalls,
                   notPipeline>>

\* mutant of NotifyUpdateAvailable: the check is awaited before main goes on
NotifyUpdateAvailable_Waits ==
    /\ pc = "notify"
    /\ IF ~checkDue THEN pc' = "load" /\ bgState' = bgState
       ELSE IF bgState = "none" THEN pc' = pc /\ bgState' = "running"
       ELSE bgState = "finished" /\ pc' = "load" /\ bgState' = bgState
    /\ UNCHANGED <<phase, dryRun, yesSure, cleaned, cmd, requireConfirm, generated,
                   spawned, spawnErr, prompts, runErr, stdout, stderr, exitCode,
                   exitReason, runCalls, startVars, checkDue, bgNotice, stampTouched,
                   restVars>>

\* update.NotifyUpdateAvailable: start the goroutine when a check is due
NotifyUpdateAvailable ==
    /\ pc = "notify"
    /\ pc' = "load"
    /\ bgState' = IF checkDue THEN "running" ELSE "none"
    /\ UNCHANGED <<phase, dryRun, yesSure, cleaned, cmd, requireConfirm, generated,
                   spawned, spawnErr, prompts, runErr, stdout, stderr, exitCode,
                   exitReason, runCalls, startVars, checkDue, bgNotice, stampTouched,
                   restVars>>

\* main: cfg, err := config.Load()
LoadConfig ==
    /\ pc = "load"
    /\ \E home \in BOOLEAN, proj \in FileStates :
       \E user \in IF home THEN FileStates ELSE {NoPath} :
         LET r == Load(home, user, proj)
         IN  /\ loadEnv' = [home |-> home, user |-> user, proj |-> proj]
             /\ pathsTried' = r.pathsTried
             /\ errorsTried' = r.errorsTried
             /\ cfg' = r.cfg
             /\ IF r.err THEN Exit(1, "config_error")
                ELSE pc' = "select" /\ UNCHANGED <<exitCode, exitReason>>
    /\ UNCHANGED <<phase, dryRun, yesSure, cleaned, cmd, requireConfirm, generated,
                   spawned, spawnErr, prompts, runErr, stdout, stderr, runCalls,
                   showVersion, updateFlag, checkUpdate, nArgs, providerFlag,
                   registry, providerName, bgVars, restVars>>

\* main: providerName is the flag when given, else cfg.DefaultProvider
SelectedName(flag, config) ==
    IF flag # "" THEN flag ELSE config.default_provider

\* mutant of Get: every name is found
Get_AlwaysFound(reg, name) == [p |-> EchoProvider, ok |-> TRUE]

\* provider.Get: p, ok := registry[name]; return p, ok
Get(reg, name) ==
    IF name \in DOMAIN reg THEN [p |-> reg[name], ok |-> TRUE]
    ELSE [p |-> NilProvider, ok |-> FALSE]

\* main: select the provider
SelectProvider ==
    /\ pc = "select"
    /\ providerName' = SelectedName(providerFlag, cfg)
    /\ IF Get(registry, providerName').ok
       THEN pc' = "generate" /\ UNCHANGED <<exitCode, exitReason>>
       ELSE Exit(1, "unknown_provider")
    /\ UNCHANGED <<phase, dryRun, yesSure, cleaned, cmd, requireConfirm, generated,
                   spawned, spawnErr, prompts, runErr, stdout, stderr, runCalls,
                   showVersion, updateFlag, checkUpdate, nArgs, providerFlag, loadEnv,
                   pathsTried, errorsTried, cfg, registry, bgVars, restVars>>

\* the goroutine: CheckForUpdates returned; the notice is written when a
\* newer release exists; a failure is dropped
BgCheck ==
    /\ bgState = "running" /\ pc # "done"
    /\ \E result \in {"update", "current", "failed"} :
         bgNotice' = (result = "update")
    /\ bgState' = "checked"
    /\ UNCHANGED <<mainVars, runCalls, startVars, checkDue, stampTouched, restVars>>

\* the goroutine: the deferred UpdateLastCheckTime; os.Create may fail
BgTouch ==
    /\ bgState = "checked" /\ pc # "done"
    /\ stampTouched' \in BOOLEAN
    /\ bgState' = "finished"
    /\ UNCHANGED <<mainVars, runCalls, startVars, checkDue, bgNotice, restVars>>

\* main: generate the primary command, sanitize it, classify it
GeneratePrimary ==
    /\ pc = "generate" /\ phase = "primary"
    /\ \E r \in ProviderResults :
         /\ generated' = Append(generated, r)
         /\ IF r.err
            THEN /\ Exit(1, "provider_error")
                 /\ UNCHANGED <<cleaned, cmd, requireConfirm>>
            ELSE LET c == cleanCommand(r.text)
                     d == DecidePrimary(c, yesSure)
                 IN  /\ cleaned' = c
                     /\ IF d.refuse
                        THEN /\ Exit(1, "danger_refused")
                             /\ UNCHANGED <<cmd, requireConfirm>>
                        ELSE /\ cmd' = d.cmd
                             /\ requireConfirm' = d.requireConfirm
                             /\ pc' = "run"
                             /\ UNCHANGED <<exitCode, exitReason>>
    /\ UNCHANGED <<phase, dryRun, yesSure, spawned, spawnErr, prompts,
                   runErr, stdout, stderr, runCalls, notPipeline>>

\* mutant of RunEntry: the confirmation prompt comes before the dry-run test
RunEntry_ConfirmFirst(dry, confirm) ==
    IF confirm THEN "confirm" ELSE IF dry THEN "returned" ELSE "spawn"

\* Executor.Run up to the confirmation prompt: where a call continues
RunEntry(dry, confirm) ==
    IF dry THEN "returned" ELSE IF confirm THEN "confirm" ELSE "spawn"

\* Executor.Run: entry, dry-run return
RunEnter ==
    /\ pc = "run"
    /\ pc' = RunEntry(dryRun, requireConfirm)
    /\ IF pc' = "returned"
       THEN runErr' = FALSE /\ stdout' = <<>> /\ stderr' = <<>>
       ELSE UNCHANGED <<runErr, stdout, stderr>>
    /\ runCalls' = runCalls + 1
    /\ UNCHANGED <<phase, dryRun, yesSure, cleaned, cmd, requireConfirm, generated,
                   spawned, spawnErr, prompts, exitCode, exitReason, notPipeline>>

\* mutant of Aborts: only a lower-case n aborts
Aborts_LowerOnly(resp) == resp # <<>> /\ resp[1] = "n"

\* mutant of Aborts: blanks before the first character are skipped
Aborts_SkipsBlanks(resp) ==
    TrimLeftSpace(resp) # <<>> /\ TrimLeftSpace(resp)[1] \in {"n", "N"}

\* Executor.Run: resp != "" && (resp[0] == 'n' || resp[0] == 'N')
Aborts(resp) == resp # <<>> /\ (resp[1] = "n" \/ resp[1] = "N")

\* Executor.Run: the confirmation prompt and the line read from standard input
RunConfirm ==
    /\ pc = "confirm"
    /\ \E rd \in ReadResults :
         LET resp == IF rd.ok THEN rd.line ELSE <<>>
         IN  /\ prompts' = Append(prompts, [cmd |-> cmd, resp |-> resp, eof |-> ~rd.ok])
             /\ IF Aborts(resp)
                THEN /\ pc' = "returned"
                     /\ runErr' = FALSE /\ stdout' = <<>> /\ stderr' = <<>>
                ELSE /\ pc' = "spawn"
                     /\ UNCHANGED <<runErr, stdout, stderr>>
    /\ UNCHANGED <<phase, dryRun, yesSure, cleaned, cmd, requireConfirm, generated,
                   spawned, spawnErr, exitCode, exitReason, runCalls, notPipeline>>

\* Executor.Run: the interpreter subprocess
RunSpawn ==
    /\ pc = "spawn"
    /\ \E o \in SubprocessResults :
         /\ spawned' = Append(spawned, cmd)
         /\ spawnErr' = Append(spawnErr, o.err)
         /\ runErr' = o.err
         /\ stdout' = o.out
         /\ stderr' = o.errout
    /\ pc' = "returned"
    /\ UNCHANGED <<phase, dryRun, yesSure, cleaned, cmd, requireConfirm, generated,
                   prompts, exitCode, exitReason, runCalls, notPipeline>>

\* mutant of Retries: the correction is requested whenever the primary call
\* of Run returns outside dry-run, error or not
Retries_OnAnyReturn(ph, err, dry) == ph = "primary" /\ ~dry

\* mutant of Retries: every failed execution asks for another correction
Retries_Always(ph, err, dry) == err /\ ~dry

\* main: the retry branch is entered after the primary Run only
Retries(ph, err, dry) == ph = "primary" /\ err /\ ~dry

\* main: after Executor.Run returned
MainAfterRun ==
    /\ pc = "returned"
    /\ IF Retries(phase, runErr, dryRun)
       THEN /\ phase' = "corrected"
            /\ pc' = "generate"
            /\ UNCHANGED <<exitCode, exitReason>>
       ELSE /\ IF runErr
               THEN Exit(1, IF phase = "primary" THEN "command_failed"
                                                 ELSE "corrected_failed")
               ELSE Exit(0, "ok")
            /\ UNCHANGED phase
    /\ UNCHANGED <<dryRun, yesSure, cleaned, cmd, requireConfirm, generated, spawned,
                   spawnErr, prompts, runErr, stdout, stderr, runCalls, notPipeline>>

\* main: ask for a corrected command, sanitize it, validate it, classify it
GenerateCorrected ==
    /\ pc = "generate" /\ phase = "corrected"
    /\ \E r \in ProviderResults :
         /\ generated' = Append(generated, r)
         /\ IF r.err
            THEN /\ Exit(1, "correction_error")
                 /\ UNCHANGED <<cleaned, cmd, requireConfirm>>
            ELSE LET c == cleanCommand(r.text)
                     d == DecideCorrected(c, yesSure)
                 IN  /\ cleaned' = c
                     /\ IF ~ValidCorrected(c)
                        THEN /\ Exit(1, "correction_empty")
                             /\ UNCHANGED <<cmd, requireConfirm>>
                        ELSE IF d.refuse
                        THEN /\ Exit(1, "danger_refused")
                             /\ UNCHANGED <<cmd, requireConfirm>>
                        ELSE /\ cmd' = d.cmd
                             /\ requireConfirm' = d.requireConfirm
                             /\ pc' = "run"
                             /\ UNCHANGED <<exitCode, exitReason>>
    /\ UNCHANGED <<phase, dryRun, yesSure, spawned, spawnErr, prompts,
                   runErr, stdout, stderr, runCalls, notPipeline>>

Next ==
    \/ ParseFlags
    \/ NotifyUpdateAvailable
    \/ LoadConfig
    \/ SelectProvider
    \/ BgCheck
    \/ BgTouch
    \/ GeneratePrimary
    \/ RunEnter
    \/ RunConfirm
    \/ RunSpawn
    \/ MainAfterRun
    \/ GenerateCorrected

Spec == Init /\ [][Next]_vars

----------------------------------------------------------------------------
(* SpecClean: cleanCommand on bounded inputs *)

Alphabet == {BT, NL, " ", "#", "a"}

\* all strings over A of length lo..hi
StringsOver(A, lo, hi) == UNION {[1..n -> A] : n \in lo..hi}

\* a fenced block: the line Fence+t, the line c, the line Fence
Block(t, c) == Fence \o t \o <<NL>> \o c \o <<NL>> \o Fence
\* fence and command on one line
Inline(c) == Fence \o c \o Fence

Tags   == StringsOver({"a", " "}, 0, MaxTag)
Bodies == StringsOver({"a", " ", "#"}, 1, MaxBody)

idleMain ==
    /\ pc = "idle" /\ phase = "primary" /\ dryRun = FALSE /\ yesSure = FALSE
    /\ cleaned = <<>> /\ cmd = <<>> /\ requireConfirm = FALSE /\ generated = <<>>
    /\ spawned = <<>> /\ spawnErr = <<>> /\ prompts = <<>> /\ runErr = FALSE
    /\ stdout = <<>> /\ stderr = <<>> /\ exitCode = -1 /\ exitReason = "none"
    /\ runCalls = 0
    /\ showVersion = FALSE /\ updateFlag = FALSE /\ checkUpdate = FALSE /\ nArgs = 0
    /\ providerFlag = "" /\ notLoaded /\ registry = EmptyRegistry /\ providerName = ""
    /\ checkDue = FALSE /\ noGoroutine

InitClean ==
    /\ idleMain /\ idleDanger /\ idleProvider /\ idleUpdate /\ idleRegistry
    /\ idlePrompt /\ idleGather /\ idleExec
    /\ cstep = 0 /\ out1 = <<>> /\ out2 = <<>>
    /\ \/ /\ shape = "inline" /\ tag = <<>>
          /\ body \in Bodies
          /\ raw = Inline(body)
       \/ /\ shape = "block"
          /\ tag \in Tags /\ body \in Bodies
          /\ raw = Block(tag, body)
       \/ /\ shape = "plain" /\ tag = <<>> /\ body = <<>>
          /\ raw \in StringsOver(Alphabet, 0, MaxLen)

\* cmd = cleanCommand(cmd)
Sanitize ==
    /\ cstep = 0
    /\ out1' = cleanCommand(raw)
    /\ cstep' = 1
    /\ UNCHANGED <<raw, shape, tag, body, out2, notClean>>

\* sanitizing an already-sanitized command
Resanitize ==
    /\ cstep = 1
    /\ out2' = cleanCommand(out1)
    /\ cstep' = 2
    /\ UNCHANGED <<raw, shape, tag, body, out1, notClean>>

NextClean == Sanitize \/ Resanitize

SpecClean == InitClean /\ [][NextClean]_vars

----------------------------------------------------------------------------
(* SpecDanger: shell.IsDangerousCommand on bounded command texts *)

\* longest generated command text
MaxCmd == 4

DangerAlphabet == {"r", "m", "R", "M", "d", " "}

\* command texts that cover every keyword, in several spellings
DangerSamples ==
    { <<"R", "M", " ", "-", "r", "f", " ", "/">>,
      <<"e", "c", "h", "o", " ", "r", "m", " ", "i", "s", " ", "r", "i", "s", "k", "y">>,
      <<"f", "i", "r", "m", "w", "a", "r", "e">>,
      <<"D", "d", " ", "i", "f", "=", "x">>,
      <<"M", "k", "F", "s", ".", "e", "x", "t", "4">>,
      <<"S", "h", "u", "t", "d", "o", "w", "n">>,
      <<"R", "E", "B", "O", "O", "T">>,
      <<"I", "n", "i", "t", " ", "0">>,
      <<"i", "n", "i", "t", " ", " ", "0">>,
      <<"i", "n", "i", "t", "0">>,
      <<"H", "a", "l", "t">>,
      <<"h", "a", "l", " ", "t">>,
      <<"l", "s", " ", "-", "l", "a">>,
      <<"c", "h", "m", "o", "d">> }

\* the two spellings of a letter; any other character has one spelling
Cases(ch) ==
    {ch} \cup {UpperCase[k] : k \in {n \in 1..Len(LowerCase) : LowerCase[n] = ch}}
         \cup {LowerCase[k] : k \in {n \in 1..Len(UpperCase) : UpperCase[n] = ch}}

RECURSIVE CaseVariants(_)
\* every upper/lower-case variant of s
CaseVariants(s) ==
    IF s = <<>> THEN {<<>>}
    ELSE {<<c>> \o t : c \in Cases(Head(s)), t \in CaseVariants(Tail(s))}

InitDanger ==
    /\ idleMain /\ idleClean /\ idleProvider /\ idleUpdate /\ idleRegistry
    /\ idlePrompt /\ idleGather /\ idleExec
    /\ dcmd \in StringsOver(DangerAlphabet, 0, MaxCmd) \cup DangerSamples
    /\ dstep = "input" /\ dres = FALSE /\ dvar = <<>> /\ dvres = FALSE

\* IsDangerousCommand(cmd)
Classify ==
    /\ dstep = "input"
    /\ dres' = IsDangerousCommand(dcmd)
    /\ dstep' = "classified"
    /\ UNCHANGED <<dcmd, dvar, dvres, notDanger>>

\* IsDangerousCommand on a case variant of the same text
ClassifyVariant ==
    /\ dstep = "classified"
    /\ \E v \in CaseVariants(dcmd) :
         /\ dvar' = v
         /\ dvres' = IsDangerousCommand(v)
    /\ dstep' = "varied"
    /\ UNCHANGED <<dcmd, dres, notDanger>>

NextDanger ==
    \/ Classify
    \/ ClassifyVariant

SpecDanger == InitDanger /\ [][NextDanger]_vars

----------------------------------------------------------------------------
(* SpecProvider: GenerateCommand of the five HTTP backends *)

\* longest model text in a response
MaxText == 4

CR == "\r"

Backends == {"openrouter", "openai", "anthropic", "gemini", "ollama"}

\* values of the configured Model and of opts.Model; "" is unset
ConfiguredModels == {<<>>, <<"c", "f", "g">>}
OverrideModels   == {<<>>, <<"o", "p", "t">>}

Bash == <<"b", "a", "s", "h">>

\* model texts that are a fenced block: the fence line, with or without the
\* language tag, a command line, the closing fence line
FencedBodies == {CmdLs, <<"l", "s", " ", "-", "l">>}
FencedTexts  == {Block(t, c) : t \in {Bash, <<>>}, c \in FencedBodies}

\* the extracted model text
Texts == StringsOver({"a", " ", NL, CR}, 0, MaxText) \cup FencedTexts

\* outcomes of the HTTP exchange: the request fails, the status is not 200,
\* the body is not JSON, the choices / content / candidates array is empty,
\* or the completion field is decoded (an absent string decodes as "")
HTTPResults ==
    {[kind |-> k, text |-> <<>>] : k \in {"neterr", "status", "badjson", "nofield"}}
    \cup {[kind |-> "content", text |-> t] : t \in Texts}

\* model := x.Model; if opts.Model != "" { model = opts.Model }
ResolveModel(configured, override) ==
    IF override # <<>> THEN override ELSE configured

\* the model named in the outbound request: the "model" field of the body,
\* except for Gemini, whose body has no model and whose endpoint is built
\* from g.Model
RequestModel(b, configured, override) ==
    IF b = "gemini" THEN configured ELSE ResolveModel(configured, override)

\* whether the backend rejects an empty completion text
ChecksEmptyContent(b) == b # "openrouter"

\* content = strings.TrimSpace(content); cmd := strings.SplitN(content, "\n", 2)[0]
FirstLineOf(content) == Split(TrimSpace(content))[1]

\* GenerateCommand(ctx, prompt, opts) of backend b
GenerateCommand(b, configured, override, http) ==
    LET m == RequestModel(b, configured, override)
    IN  IF http.kind # "content"
        THEN [model |-> m, cmd |-> <<>>, err |-> TRUE]
        ELSE IF ChecksEmptyContent(b) /\ http.text = <<>>
        THEN [model |-> m, cmd |-> <<>>, err |-> TRUE]
        ELSE [model |-> m, cmd |-> FirstLineOf(http.text), err |-> FALSE]

InitProvider ==
    /\ idleMain /\ idleClean /\ idleDanger /\ idleUpdate /\ idleRegistry
    /\ idlePrompt /\ idleGather /\ idleExec
    /\ backend \in Backends
    /\ cfgModel \in ConfiguredModels
    /\ optModel \in OverrideModels
    /\ httpResult \in HTTPResults
    /\ pstep = "call"
    /\ reqModel = <<>> /\ genCmd = <<>> /\ genErr = FALSE /\ endCmd = <<>>

\* one call of GenerateCommand
Generate ==
    /\ pstep = "call"
    /\ LET r == GenerateCommand(backend, cfgModel, optModel, httpResult)
       IN  /\ reqModel' = r.model
           /\ genCmd' = r.cmd
           /\ genErr' = r.err
    /\ pstep' = "returned"
    /\ UNCHANGED <<backend, cfgModel, optModel, httpResult, endCmd, notProvider>>

\* main: cmd = cleanCommand(cmd) on the command a backend returned
CleanGenerated ==
    /\ pstep = "returned" /\ ~genErr
    /\ endCmd' = cleanCommand(genCmd)
    /\ pstep' = "cleaned"
    /\ UNCHANGED <<backend, cfgModel, optModel, httpResult, reqModel, genCmd, genErr,
                   notProvider>>

NextProvider ==
    \/ Generate
    \/ CleanGenerated

SpecProvider == InitProvider /\ [][NextProvider]_vars

----------------------------------------------------------------------------
(* SpecUpdate: the daily update check over successive invocations *)

\* last hour of the clock
MaxClock == 26
\* most update checks initiated
MaxChecks == 3

\* 24*time.Hour, in hours
Day == 24

\* ShouldCheckForUpdates: no .last_update_check file, or one modified more
\* than 24 hours ago
ShouldCheckForUpdates(stamp, now) ==
    IF stamp = -1 THEN TRUE ELSE now - stamp > Day

InitUpdate ==
    /\ idleMain /\ idleClean /\ idleDanger /\ idleProvider /\ idleRegistry
    /\ idlePrompt /\ idleGather /\ idleExec
    /\ uclock = 0 /\ ustamp = -1 /\ uproc = "none" /\ ugor = "none" /\ uchecks = <<>>

\* an hour passes
Tick ==
    /\ uclock < MaxClock
    /\ uclock' = uclock + 1
    /\ UNCHANGED <<ustamp, uproc, ugor, uchecks, notUpdate>>

\* an invocation starts and main calls NotifyUpdateAvailable
InvokeNotify ==
    /\ uproc = "none"
    /\ uproc' = "running"
    /\ IF ShouldCheckForUpdates(ustamp, uclock)
       THEN /\ Len(uchecks) < MaxChecks
            /\ ugor' = "running"
            /\ uchecks' = Append(uchecks, uclock)
       ELSE UNCHANGED <<ugor, uchecks>>
    /\ UNCHANGED <<uclock, ustamp, notUpdate>>

\* the goroutine: CheckForUpdates returns, with or without an error
GoroutineCheck ==
    /\ uproc = "running" /\ ugor = "running"
    /\ ugor' = "checked"
    /\ UNCHANGED <<uclock, ustamp, uproc, uchecks, notUpdate>>

\* the goroutine: the deferred UpdateLastCheckTime; os.Create may fail
GoroutineTouch ==
    /\ uproc = "running" /\ ugor = "checked"
    /\ \E created \in BOOLEAN :
         ustamp' = IF created THEN uclock ELSE ustamp
    /\ ugor' = "none"
    /\ UNCHANGED <<uclock, uproc, uchecks, notUpdate>>

\* main returns or exits: the process ends, and its goroutine with it
ProcessExit ==
    /\ uproc = "running"
    /\ uproc' = "none"
    /\ ugor' = "none"
    /\ UNCHANGED <<uclock, ustamp, uchecks, notUpdate>>

NextUpdate ==
    \/ Tick
    \/ InvokeNotify
    \/ GoroutineCheck
    \/ GoroutineTouch
    \/ ProcessExit

SpecUpdate == InitUpdate /\ [][NextUpdate]_vars

----------------------------------------------------------------------------
(* SpecRegistry: provider.Register / Get / List and the registration from config *)

\* most Register calls after the test backend's
MaxRegs == 3

\* providers that may be passed to Register: two instances under each name
ProviderPool == {[name |-> n, inst |-> i] : n \in {"echo", "openai"}, i \in 1..2}

KeyBackends  == {"openrouter", "anthropic", "openai", "gemini"}
ConfigNames  == KeyBackends \cup {"ollama", "other"}

\* cfg.Providers: any entries for the key-based backends (with or without a
\* key), with or without an entry for ollama or under another name
ConfigMaps ==
    UNION {[D -> {[key |-> k, url |-> ""] : k \in {"", "k"}}] : D \in SUBSET ConfigNames}

\* the provider RegisterProvidersFromConfig builds for a backend
FromConfig(n) == [name |-> n, inst |-> 0]

RECURSIVE RegisterEntries(_, _, _)
\* RegisterProvidersFromConfig: the loop over the entries still to visit
RegisterEntries(reg, cp, todo) ==
    IF todo = {} THEN reg
    ELSE LET n    == CHOOSE x \in todo : TRUE
             reg2 == IF n \in KeyBackends
                     THEN IF cp[n].key # "" THEN Register(reg, FromConfig(n)) ELSE reg
                     ELSE IF n = "ollama" THEN Register(reg, FromConfig(n))
                     ELSE reg
         IN  RegisterEntries(reg2, cp, todo \ {n})

\* provider.RegisterProvidersFromConfig(configProviders)
RegisterProvidersFromConfig(reg, cp) == RegisterEntries(reg, cp, DOMAIN cp)

\* main's init has registered the test backend
InitRegistry ==
    /\ idleMain /\ idleClean /\ idleDanger /\ idleProvider /\ idleUpdate
    /\ idlePrompt /\ idleGather /\ idleExec
    /\ rreg = Register(EmptyRegistry, EchoProvider)
    /\ rlog = <<EchoProvider>>
    /\ \/ rstep = "calls" /\ rcfg = EmptyRegistry
       \/ rstep = "start" /\ rcfg \in ConfigMaps
    /\ rgot = NoGet /\ rlist = {}

\* provider.Register(p)
RegisterCall ==
    /\ rstep = "calls" /\ Len(rlog) <= MaxRegs
    /\ \E p \in ProviderPool :
         /\ rreg' = Register(rreg, p)
         /\ rlog' = Append(rlog, p)
    /\ UNCHANGED <<rcfg, rstep, rgot, rlist, notRegistry>>

\* provider.Get(name)
GetCall ==
    /\ rstep \in {"calls", "configured"}
    /\ \E n \in {"echo", "openai", "ollama", "ghost"} :
         LET r == Get(rreg, n)
         IN  rgot' = [name |-> n, p |-> r.p, ok |-> r.ok, at |-> Len(rlog)]
    /\ UNCHANGED <<rreg, rlog, rcfg, rstep, rlist, notRegistry>>

\* provider.List()
ListCall ==
    /\ rstep \in {"calls", "configured"}
    /\ rlist' = List(rreg)
    /\ UNCHANGED <<rreg, rlog, rcfg, rstep, rgot, notRegistry>>

\* provider.RegisterProvidersFromConfig(cfg.Providers)
RegisterFromConfig ==
    /\ rstep = "start"
    /\ rreg' = RegisterProvidersFromConfig(rreg, rcfg)
    /\ rstep' = "configured"
    /\ UNCHANGED <<rlog, rcfg, rgot, rlist, notRegistry>>

NextRegistry ==
    \/ RegisterCall
    \/ GetCall
    \/ ListCall
    \/ RegisterFromConfig

SpecRegistry == InitRegistry /\ [][NextRegistry]_vars

----------------------------------------------------------------------------
(* the specifications below start with everything above at rest *)

coreVars == <<mainVars, runCalls, startVars, bgVars, cleanVars, dangerVars, provVars,
              updVars, regVars>>

idleCore ==
    /\ idleMain /\ idleClean /\ idleDanger /\ idleProvider /\ idleUpdate /\ idleRegistry

----------------------------------------------------------------------------
(* SpecPrompt: prompt.BuildPrompt called repeatedly on one context *)

\* most BuildPrompt calls on the same inputs
MaxCalls == 2

\* maxFiles of BuildPrompt
MaxFiles == 20

\* the enumerations of a set: every order in which a range over a map with
\* these keys may visit them
Orders(S) ==
    {o \in [1..Cardinality(S) -> S] : \A x \in S : \E i \in 1..Cardinality(S) : o[i] = x}

RECURSIVE Flatten(_)
Flatten(ss) == IF ss = <<>> THEN <<>> ELSE Head(ss) \o Flatten(Tail(ss))

\* fmt.Sprintf("%v", files) for a []string: [a b c]
FormatSlice(files) ==
    <<"[">> \o Flatten([i \in 1..Len(files) |->
                          IF i = 1 THEN <<files[i]>> ELSE <<" ", files[i]>>]) \o <<"]">>

\* the file list of the prompt
FileList(files) ==
    IF Len(files) > 0
    THEN IF Len(files) > MaxFiles
         THEN FormatSlice(SubSeq(files, 1, MaxFiles))
                  \o <<" ... (and ", ToString(Len(files) - MaxFiles), " more)">>
         ELSE FormatSlice(files)
    ELSE <<"(none)">>

\* the git part of the prompt
GitInfoText(git) ==
    LET b == IF "branch" \in DOMAIN git /\ git["branch"] # ""
             THEN <<"Branch: ", git["branch"], "\n">> ELSE <<>>
        s == IF "status" \in DOMAIN git /\ git["status"] # ""
             THEN <<"Status:\n", git["status"], "\n">> ELSE <<>>
    IN  IF b \o s = <<>> THEN <<"No git repository detected.\n">> ELSE b \o s

\* the plugin extras of the prompt, the keys of the mapping visited in order o
ExtrasText(extra, o) ==
    IF DOMAIN extra # {}
    THEN <<"Additional context:\n">>
             \o Flatten([i \in 1..Len(o) |-> <<"- ", o[i], ": ", extra[o[i]], "\n">>])
    ELSE <<>>

\* prompt.BuildPrompt(ctx, userInput), the pieces of the returned string in
\* order; o is the order in which the range over ctx.Extra visits its keys
BuildPrompt(ctx, userInput, o) ==
    <<"You are an expert terminal assistant. [...]\n\n", "Working Directory: ",
      ctx.WorkingDir, "\n", "Files: ">> \o FileList(ctx.Files) \o <<"\n", "Git Info:\n">>
        \o GitInfoText(ctx.GitInfo) \o ExtrasText(ctx.Extra, o)
        \o <<"User Request: ", userInput, "\n", "Shell Command:">>

FileLists == {<<>>, <<"a", "b">>, [i \in 1..(MaxFiles + 1) |-> "f"]}

GitInfos ==
    UNION {[D -> {"", "x"}] : D \in SUBSET {"branch", "status"}}

ExtraMaps ==
    UNION {[D -> {"v", "w"}] : D \in SUBSET {"k1", "k2", "k3"}}

Contexts ==
    [WorkingDir : {"/w"}, Files : FileLists, GitInfo : GitInfos, Extra : ExtraMaps]

InitPrompt ==
    /\ idleCore /\ idleGather /\ idleExec
    /\ pctx \in Contexts
    /\ pinput \in {"list files", ""}
    /\ pouts = <<>>

\* one call BuildPrompt(pctx, pinput)
BuildPromptCall ==
    /\ pctx # NoContext /\ Len(pouts) < MaxCalls
    /\ \E o \in Orders(DOMAIN pctx.Extra) :
         pouts' = Append(pouts, BuildPrompt(pctx, pinput, o))
    /\ UNCHANGED <<pctx, pinput, coreVars, gatherVars, execVars>>

NextPrompt == BuildPromptCall

SpecPrompt == InitPrompt /\ [][NextPrompt]_vars

----------------------------------------------------------------------------
(* SpecGather: gatherContext *)

PluginNames == {"p1", "p2", "p3"}

\* plugin registries: at most one plugin under each name; of each plugin,
\* whether its Gather returns an error and whether it puts a value into
\* ctx.Extra before returning
PluginRegistries ==
    UNION {[D -> [fails : BOOLEAN, writes : BOOLEAN]] : D \in SUBSET PluginNames}

\* mutant of LoopGoesOn: an error of a plugin ends the loop
LoopGoesOn_StopOnError(err) == ~err

\* the loop "for _, p := range plugin.List() { _ = p.Gather(ctx) }" drops
\* the error and goes on to the next plugin
LoopGoesOn(err) == TRUE

\* the plugins still to visit after one whose Gather returned err
RestAfter(todo, err) == IF LoopGoesOn(err) THEN Tail(todo) ELSE <<>>

\* Context.GatherGitInfo: each value is set only when its command succeeded
GatherGitInfo(branchOk, statusOk) ==
    [k \in (IF branchOk THEN {"branch"} ELSE {}) \cup (IF statusOk THEN {"status"} ELSE {})
        |-> IF k = "branch" THEN "main" ELSE ""]

InitGather ==
    /\ idleCore /\ idlePrompt /\ idleExec
    /\ genv \in [readDirOk : BOOLEAN, branchOk : BOOLEAN, statusOk : BOOLEAN,
                 plugins : PluginRegistries]
    /\ gstep = "start" /\ gctx = NoContext /\ gtodo = <<>> /\ gcalls = <<>>

\* os.Getwd, os.ReadDir, the Context literal and ctx.GatherGitInfo()
GatherBuild ==
    /\ gstep = "start"
    /\ gctx' = [WorkingDir |-> "/w",
                Files      |-> IF genv.readDirOk THEN <<"a", "b">> ELSE <<>>,
                GitInfo    |-> GatherGitInfo(genv.branchOk, genv.statusOk),
                Extra      |-> <<>>,
                set        |-> TRUE]
    /\ gstep' = "list"
    /\ UNCHANGED <<genv, gtodo, gcalls, coreVars, promptVars, execVars>>

\* plugin.List(): the registered plugins in the order the map range gives
GatherList ==
    /\ gstep = "list"
    /\ gtodo' \in Orders(DOMAIN genv.plugins)
    /\ gstep' = "plugins"
    /\ UNCHANGED <<genv, gctx, gcalls, coreVars, promptVars, execVars>>

\* one iteration of the loop: _ = p.Gather(ctx)
GatherPlugin ==
    /\ gstep = "plugins" /\ gtodo # <<>>
    /\ LET n == Head(gtodo)
           p == genv.plugins[n]
       IN  /\ gcalls' = Append(gcalls, n)
           /\ gctx' = IF p.writes
                      THEN [gctx EXCEPT !.Extra =
                               [k \in DOMAIN gctx.Extra \cup {n} |->
                                   IF k = n THEN "v" ELSE gctx.Extra[k]]]
                      ELSE gctx
           /\ gtodo' = RestAfter(gtodo, p.fails)
    /\ UNCHANGED <<genv, gstep, coreVars, promptVars, execVars>>

\* return ctx
GatherReturn ==
    /\ gstep = "plugins" /\ gtodo = <<>>
    /\ gstep' = "returned"
    /\ UNCHANGED <<genv, gctx, gtodo, gcalls, coreVars, promptVars, execVars>>

NextGather ==
    \/ GatherBuild
    \/ GatherList
    \/ GatherPlugin
    \/ GatherReturn

SpecGather == InitGather /\ [][NextGather]_vars

----------------------------------------------------------------------------
(* SpecExec: the subprocess of Executor.Run, its output and the terminal *)

\* most pieces of output a subprocess writes
MaxPieces == 3

Streams == {"stdout", "stderr"}
Pieces  == {"a", "b"}

\* the pieces written to one stream, concatenated in order
OnStream(written, st) ==
    Flatten([i \in 1..Len(written) |->
                IF written[i].stream = st THEN <<written[i].piece>> ELSE <<>>])

\* Run is past the dry-run check and the confirmation: command.Run() has
\* started bash with Stdout and Stderr set to the two buffers
InitExec ==
    /\ idleCore /\ idlePrompt /\ idleGather
    /\ xstep = "running" /\ xwritten = <<>> /\ xstdoutBuf = <<>> /\ xstderrBuf = <<>>
    /\ xterm = <<>> /\ xerr = FALSE /\ xret = NoReturn /\ xprompt = <<>>

\* the subprocess writes a piece to its standard output or standard error:
\* it goes to the buffer behind that stream
SubprocessWrite ==
    /\ xstep = "running" /\ Len(xwritten) < MaxPieces
    /\ \E st \in Streams : \E pc0 \in Pieces :
         /\ xwritten' = Append(xwritten, [stream |-> st, piece |-> pc0])
         /\ xstdoutBuf' = IF st = "stdout" THEN Append(xstdoutBuf, pc0) ELSE xstdoutBuf
         /\ xstderrBuf' = IF st = "stderr" THEN Append(xstderrBuf, pc0) ELSE xstderrBuf
    /\ UNCHANGED <<xstep, xterm, xerr, xret, xprompt, coreVars, promptVars, gatherVars>>

\* the subprocess ends and command.Run() returns
SubprocessExit ==
    /\ xstep = "running"
    /\ xerr' \in BOOLEAN
    /\ xstep' = "exited"
    /\ UNCHANGED <<xwritten, xstdoutBuf, xstderrBuf, xterm, xret, xprompt,
                   coreVars, promptVars, gatherVars>>

\* the rest of Run: the buffers become strings, are printed when non-empty
\* and are returned with the error
PrintAndReturn ==
    /\ xstep = "exited"
    /\ xterm' = xterm
                  \o (IF xstdoutBuf # <<>> THEN <<[stream |-> "stdout", text |-> xstdoutBuf]>>
                      ELSE <<>>)
                  \o (IF xstderrBuf # <<>> THEN <<[stream |-> "stderr", text |-> xstderrBuf]>>
                      ELSE <<>>)
    /\ xret' = [stdout |-> xstdoutBuf, stderr |-> xstderrBuf, err |-> xerr, set |-> TRUE]
    /\ xstep' = "returned"
    /\ UNCHANGED <<xwritten, xstdoutBuf, xstderrBuf, xerr, xprompt,
                   coreVars, promptVars, gatherVars>>

\* main after a failed run: the correction prompt embeds the command, the
\* error, the captured stderr and stdout and the request
BuildErrorPrompt ==
    /\ xstep = "returned" /\ xret.err
    /\ xprompt' = <<"The previous command failed:\n", "Command: ", "cmd", "\n",
                    "Error: ", "err", "\n", "Stderr: ">> \o xret.stderr
                    \o <<"\n", "Stdout: ">> \o xret.stdout
                    \o <<"\n\n", "Please provide a corrected command [...]: ", "request",
                         "\n", "Return ONLY the shell command, [...]">>
    /\ xstep' = "prompted"
    /\ UNCHANGED <<xwritten, xstdoutBuf, xstderrBuf, xterm, xerr, xret,
                   coreVars, promptVars, gatherVars>>

NextExec ==
    \/ SubprocessWrite
    \/ SubprocessExit
    \/ PrintAndReturn
    \/ BuildErrorPrompt

SpecExec == InitExec /\ [][NextExec]_vars

----------------------------------------------------------------------------
(* Properties of the pipeline (Spec) *)

\* a confirmation response that begins with n or N
BeginsWithN(resp) == resp # <<>> /\ resp[1] \in {"n", "N"}

\* the process ended through the dangerous-command refusal
Refused == pc = "done" /\ exitReason = "danger_refused"

\* the command generated last was sanitized to a danger-prefixed command and
\* the bypass flag is not set
DangerNoBypass ==
    /\ ~yesSure
    /\ Len(generated) = (IF phase = "primary" THEN 1 ELSE 2)
    /\ ~generated[Len(generated)].err
    /\ HasPrefix(cleanCommand(generated[Len(generated)].text), DangerPrefix)

\* C1 as stated: whenever the process ends through the dangerous-command
\* refusal, the exit status is 1 and no interpreter subprocess has been spawned
\* at any point of the invocation.
C1_RefusalNeverSpawned ==
    Refused => exitCode = 1 /\ spawned = <<>>

\* C1 amended: a command (primary or corrected) classified dangerous without
\* the bypass flag always ends the process through the refusal with exit
\* status 1, and the refused command is never handed to a subprocess; when the
\* primary command is refused no subprocess has been spawned at all, when the
\* corrected command is refused the only subprocess spawned is the failed
\* primary attempt.
C1_RefusalExitsBeforeRunning ==
    /\ DangerNoBypass => Refused
    /\ Refused =>
         /\ exitCode = 1
         /\ \A i \in 1..Len(spawned) : spawned[i] # cleaned
         /\ phase = "primary" => spawned = <<>>
         /\ phase = "corrected" => Len(spawned) = 1 /\ spawnErr[1]

C1_Witness ==
    Refused /\ phase = "corrected" /\ Len(spawned) = 1 /\ DangerNoBypass

\* C2: a command is dangerous if either mechanism fires (the danger prefix, or
\* a keyword of the fixed list as a lower-cased substring), and without the
\* bypass flag a dangerous command is not executed.
C2_EitherMechanismBlocks ==
    ~yesSure =>
        \A i \in 1..Len(spawned) :
            /\ ~HasPrefix(spawned[i], DangerPrefix)
            /\ ~IsDangerousCommand(spawned[i])

\* C3: with dry-run off, a subprocess is spawned for a command only if the
\* bypass flag is set or a confirmation prompt for that same command was shown
\* and answered with a response that is not negative; for the primary and for
\* the corrected command.
C3_SpawnOnlyConfirmedOrBypassed ==
    (~dryRun /\ ~yesSure) =>
        /\ Len(spawned) <= Len(prompts)
        /\ \A i \in 1..Len(spawned) :
              /\ prompts[i].cmd = spawned[i]
              /\ ~BeginsWithN(prompts[i].resp)
        /\ pc = "spawn" =>
              /\ Len(prompts) = Len(spawned) + 1
              /\ prompts[Len(prompts)].cmd = cmd
              /\ ~BeginsWithN(prompts[Len(prompts)].resp)

C3_Witness ==
    ~dryRun /\ ~yesSure /\ Len(spawned) = 2 /\ Len(prompts) = 2

\* C4: when DryRun is true, Run spawns no subprocess, shows no confirmation
\* prompt, reads nothing from standard input and returns empty stdout, empty
\* stderr and a nil error, for both values of requireConfirm.
C4_DryRunDoesNothing ==
    dryRun =>
        /\ spawned = <<>>
        /\ prompts = <<>>
        /\ pc \notin {"confirm", "spawn"}
        /\ pc = "returned" => ~runErr /\ stdout = <<>> /\ stderr = <<>>

C4_Witness ==
    dryRun /\ pc = "returned" /\ requireConfirm

\* C5: when confirmation is required and the response begins with n or N, Run
\* returns without spawning the subprocess and with a nil error, main performs
\* no retry and no further provider call, and the process exits with status 0.
C5_DeclineEndsQuietly ==
    \A j \in 1..Len(prompts) :
        BeginsWithN(prompts[j].resp) =>
            /\ j = Len(prompts)
            /\ pc \in {"returned", "done"}
            /\ ~runErr
            /\ Len(spawned) = j - 1
            /\ Len(generated) = j
            /\ pc = "done" => exitCode = 0

C5_Witness ==
    /\ pc = "done" /\ Len(prompts) = 2
    /\ prompts[2].resp = <<"N">>

\* the run reached generation, every execution fails, dry-run is off, no
\* confirmation is declined and the provider always returns a non-empty,
\* non-dangerous command
AllExecutionsFail ==
    /\ Len(generated) >= 1
    /\ ~dryRun
    /\ \A j \in 1..Len(prompts) : ~BeginsWithN(prompts[j].resp)
    /\ \A i \in 1..Len(generated) :
          /\ ~generated[i].err
          /\ cleanCommand(generated[i].text) # <<>>
          /\ ~HasPrefix(cleanCommand(generated[i].text), DangerPrefix)
    /\ \A i \in 1..Len(spawned) : spawnErr[i]

\* C6: GenerateCommand is invoked at most twice and the subprocess is spawned
\* at most twice; when every execution fails, GenerateCommand is invoked
\* exactly twice and the process ends with a fatal error.
C6_RetryExactlyOnce ==
    /\ Len(generated) <= 2
    /\ Len(spawned) <= 2
    /\ (pc = "done" /\ AllExecutionsFail) =>
          /\ Len(generated) = 2
          /\ Len(spawned) = 2
          /\ exitCode = 1

C6_Witness ==
    pc = "done" /\ AllExecutionsFail /\ Len(generated) = 2 /\ exitCode = 1

\* the correction request failed, or its result is empty after sanitization
NoCorrection ==
    /\ Len(generated) >= 2
    /\ \/ generated[2].err
       \/ cleanCommand(generated[2].text) = <<>>

\* C7: in the retry path, if the provider returns an error for the correction
\* prompt or the corrected command is empty after sanitization, the process
\* ends with exit status 1 without spawning any further subprocess and without
\* requesting another correction.
C7_NoCorrectionIsFatal ==
    NoCorrection =>
        /\ pc = "done"
        /\ exitCode = 1
        /\ Len(generated) = 2
        /\ Len(spawned) = 1

C7_Witness ==
    NoCorrection /\ ~generated[2].err /\ pc = "done"

----------------------------------------------------------------------------
(* Properties of the sanitizer (SpecClean) *)

\* C8: cleanCommand is idempotent: cleanCommand(cleanCommand(s)) = cleanCommand(s)
\* for every string s.
C8_Idempotent ==
    cstep = 2 => out2 = out1

\* C9: the result of cleanCommand is the empty string or exactly one candidate
\* line: no newline, non-empty, not beginning with the comment marker; empty
\* input yields empty output.
C9_OneCandidateLine ==
    cstep >= 1 =>
        /\ raw = <<>> => out1 = <<>>
        /\ \/ out1 = <<>>
           \/ /\ \A i \in 1..Len(out1) : out1[i] # NL
              /\ out1[1] # "#"

\* a single-line command that is non-empty, has no backtick and does not
\* start with the comment marker
PlainCommand(c) ==
    /\ c # <<>>
    /\ \A i \in 1..Len(c) : c[i] # BT /\ c[i] # NL
    /\ c[1] # "#"

\* C10: for every such command c and every language tag t, cleanCommand of
\* the fenced block (fence+t, c, fence on three lines) is c, and so is
\* cleanCommand of fence+c+fence on one line.
C10_StripsFences ==
    (cstep >= 1 /\ shape \in {"block", "inline"} /\ PlainCommand(body)) =>
        out1 = body

\* the characters a and b are the same letter, in whatever case
SameLetter(a, b) == a \in Cases(b)

\* s contains kw at some position, compared letter by letter without regard
\* to case; no word boundary is required
ContainsFold(s, kw) ==
    \E i \in 0..(Len(s) - Len(kw)) :
        \A j \in 1..Len(kw) : SameLetter(s[i + j], kw[j])

Keywords ==
    { <<"r", "m">>, <<"d", "d">>, <<"m", "k", "f", "s">>,
      <<"s", "h", "u", "t", "d", "o", "w", "n">>, <<"r", "e", "b", "o", "o", "t">>,
      <<"i", "n", "i", "t", " ", "0">>, <<"h", "a", "l", "t">> }

\* C11: IsDangerousCommand(cmd) is true exactly when cmd, compared without
\* regard to case, contains one of the seven keywords as a plain substring;
\* every upper/lower-case variant of cmd gets the same result.
C11_KeywordScanIgnoresCase ==
    /\ dstep \in {"classified", "varied"} =>
          (dres <=> \E kw \in Keywords : ContainsFold(dcmd, kw))
    /\ dstep = "varied" => dvres = dres

\* a text is found dangerous only through its upper-case letters, and a
\* differently spelled variant of it was classified too
C11_Witness ==
    /\ dstep = "varied" /\ dres /\ dvres /\ dvar # dcmd
    /\ \A kw \in Keywords : ~Contains(dcmd, kw)

\* C12: for every backend the model named in the outbound request is the
\* override when one is given, otherwise the configured default; it is never
\* the empty string, and never the configured default when an override was
\* given.
C12_ModelPrecedence ==
    pstep = "returned" =>
        /\ reqModel # <<>>
        /\ optModel # <<>> => reqModel = optModel
        /\ (optModel = <<>> /\ cfgModel # <<>>) => reqModel = cfgModel

\* the first line of s that holds more than whitespace
FirstNonEmptyLine(s) ==
    LET lines == Split(s)
        i == CHOOSE k \in 1..Len(lines) :
                 /\ TrimSpace(lines[k]) # <<>>
                 /\ \A j \in 1..(k - 1) : TrimSpace(lines[j]) = <<>>
    IN  lines[i]

\* C13: a successful GenerateCommand returns the first non-empty line of the
\* model text with the surrounding whitespace removed: no newline in the
\* result, no leading or trailing whitespace.
C13_FirstLineTrimmed ==
    (pstep = "returned" /\ ~genErr /\ TrimSpace(httpResult.text) # <<>>) =>
        /\ \A i \in 1..Len(genCmd) : genCmd[i] # NL
        /\ genCmd = TrimSpace(genCmd)
        /\ genCmd = TrimSpace(FirstNonEmptyLine(httpResult.text))

\* C14: GenerateCommand returns an error and no command when the exchange
\* fails or the completion is missing or empty; it never returns success
\* together with an empty command.
C14_NoEmptySuccess ==
    pstep = "returned" =>
        /\ (httpResult.kind # "content" \/ httpResult.text = <<>>) =>
               (genErr /\ genCmd = <<>>)
        /\ ~genErr => genCmd # <<>>

LoadReturned == Len(pathsTried) >= 1
UserParses   == loadEnv.home /\ loadEnv.user.state = "ok"
ProjParses   == loadEnv.proj.state = "ok"
LoadFailed   == exitReason = "config_error"

\* C15: config.Load tries the user-level file first and the project-level
\* file only when the user-level file gave no config; it returns the
\* user-level config whenever that file parses, whatever the project file
\* is; it fails exactly when neither file parses, and the failure carries one
\* entry for each attempt, all of which failed.
C15_LoadOrderAndErrors ==
    LoadReturned =>
        /\ pathsTried \in {<<"user">>, <<"user", "project">>, <<"project">>}
        /\ (pathsTried[Len(pathsTried)] = "project") <=> ~UserParses
        /\ (pathsTried[1] = "user") <=> loadEnv.home
        /\ UserParses => (cfg = loadEnv.user.cfg /\ ~LoadFailed)
        /\ (~UserParses /\ ProjParses) => (cfg = loadEnv.proj.cfg /\ ~LoadFailed)
        /\ LoadFailed <=> (~UserParses /\ ~ProjParses)
        /\ LoadFailed =>
              /\ Len(errorsTried) = Len(pathsTried)
              /\ \A i \in 1..Len(pathsTried) :
                    /\ errorsTried[i].path = pathsTried[i]
                    /\ errorsTried[i].why \in {"unreadable", "unparsable"}

\* both files parse to different configs and the user-level one is returned
C15_Witness ==
    /\ LoadReturned /\ UserParses /\ ProjParses
    /\ loadEnv.user.cfg # loadEnv.proj.cfg
    /\ cfg = loadEnv.user.cfg /\ pc = "select"

\* the last spawned subprocess exited zero
EndsBySuccess == Len(spawned) >= 1 /\ ~spawnErr[Len(spawned)]
\* Executor.Run was called in dry-run mode
EndsByDryRun  == dryRun /\ runCalls >= 1
\* the last confirmation prompt was answered negatively
EndsByDecline == Len(prompts) >= 1 /\ BeginsWithN(prompts[Len(prompts)].resp)

\* the invocation carries a request and none of the flags that end it at once
RequestRun == ~showVersion /\ ~updateFlag /\ ~checkUpdate /\ nArgs >= 1

\* a fatal outcome of a run that carries a request
FatalOutcome ==
    \/ LoadReturned /\ ~UserParses /\ ~ProjParses
    \/ exitReason = "unknown_provider"
    \/ \E i \in 1..Len(generated) : generated[i].err
    \/ DangerNoBypass
    \/ Len(spawned) = 2 /\ spawnErr[2]

MainFlow ==
    \/ ParseFlags \/ NotifyUpdateAvailable \/ LoadConfig \/ SelectProvider
    \/ GeneratePrimary \/ RunEnter \/ RunConfirm \/ RunSpawn \/ MainAfterRun
    \/ GenerateCorrected

\* what the main flow computes: flags, config, provider, provider calls,
\* prompts, executed commands, exit status
mainState == <<mainVars, runCalls, startVars>>

\* C17: the background update check never blocks or affects the main
\* pipeline: while the process has not ended a step of the main flow is
\* possible whatever the state of the check, every step of the check leaves
\* the provider calls, the executed commands and the exit status as they are,
\* and every change of these is a step of the main flow.
C17_CheckIsDetached ==
    /\ [](pc # "done" => ENABLED MainFlow)
    /\ [][(bgState' # bgState /\ bgState # "none") => UNCHANGED mainState]_vars
    /\ [][MainFlow]_mainState

\* the process ended after executing a command while the check, started at
\* the beginning, never completed
C17_Witness ==
    /\ pc = "done" /\ checkDue /\ bgState = "running"
    /\ Len(generated) >= 1 /\ Len(spawned) >= 1 /\ exitCode = 0

\* main is past the provider selection
ProviderSelected == LoadReturned /\ ~LoadFailed /\ pc # "select"

\* the --provider flag if non-empty, otherwise the config's default_provider
ChosenName == IF providerFlag # "" THEN providerFlag ELSE cfg.default_provider

\* C19: when the selected provider name (the --provider flag if non-empty,
\* otherwise default_provider, which may be empty) is not a key of the
\* registry, the process ends with a non-zero status before any
\* GenerateCommand call, any confirmation prompt and any subprocess.
C19_UnknownProviderIsFatal ==
    ProviderSelected =>
        /\ providerName = ChosenName
        /\ ChosenName \notin DOMAIN registry =>
              /\ pc = "done" /\ exitCode # 0
              /\ generated = <<>> /\ prompts = <<>> /\ spawned = <<>>
              /\ runCalls = 0

\* no --provider flag and no default_provider: the empty name is not registered
C19_Witness ==
    /\ ProviderSelected /\ providerFlag = "" /\ cfg.default_provider = ""
    /\ ChosenName \notin DOMAIN registry /\ pc = "done" /\ exitCode = 1

\* C20: a second GenerateCommand call, and the corrected phase, happen only
\* after the primary subprocess was spawned and failed with dry-run off; never
\* in dry-run mode, after a decline of the primary command, or after a
\* successful primary execution.
C20_RetryOnlyAfterFailedExecution ==
    (Len(generated) >= 2 \/ phase = "corrected") =>
        /\ ~dryRun
        /\ Len(spawned) >= 1 /\ spawnErr[1]
        /\ ~generated[1].err
        /\ \A j \in 1..Len(prompts) :
              BeginsWithN(prompts[j].resp) => (j = 2 /\ Len(spawned) = 1)

\* the correction was requested after the primary command ran and failed
C20_Witness ==
    /\ Len(generated) = 2 /\ Len(spawned) >= 1 /\ spawnErr[1] /\ ~dryRun
    /\ Len(prompts) >= 1 /\ ~BeginsWithN(prompts[1].resp)

\* C18: automatic update checks happen at most once per day: after an
\* invocation has initiated a check, no invocation started within the
\* following 24 hours initiates another one.
C18_OneCheckPerDay ==
    \A i \in 1..Len(uchecks) : \A j \in (i + 1)..Len(uchecks) :
        uchecks[j] - uchecks[i] > Day

\* the provider returned a corrected command
CorrectedDecided == phase = "corrected" /\ Len(generated) = 2 /\ ~generated[2].err

\* what main did with the corrected command is what the primary decision
\* gives for the same sanitized command and bypass flag
SameDecisionAsPrimary ==
    LET d == DecidePrimary(cleaned, yesSure)
    IN  IF d.refuse
        THEN pc = "done" /\ exitCode = 1 /\ runCalls = 1 /\ Len(spawned) = 1
        ELSE /\ pc = "run" \/ runCalls = 2
             /\ cmd = d.cmd
             /\ requireConfirm = d.requireConfirm

\* C21 as stated: the corrected command is sanitized by cleanCommand, the
\* decision applied to it is the same function of (sanitized command, bypass
\* flag, dry-run flag) as for the primary command, and it is executed at most
\* once.
C21_SamePipeline ==
    /\ runCalls <= 2 /\ Len(spawned) <= 2
    /\ CorrectedDecided =>
          /\ cleaned = cleanCommand(generated[2].text)
          /\ SameDecisionAsPrimary

\* C21 amended: the same holds for every corrected command that is not
\* empty after sanitization; an empty corrected command ends the process
\* with status 1 before Executor.Run, whereas an empty primary command is
\* handed to Executor.Run.
C21_SamePipelineUnlessEmpty ==
    /\ runCalls <= 2 /\ Len(spawned) <= 2
    /\ CorrectedDecided =>
          /\ cleaned = cleanCommand(generated[2].text)
          /\ cleaned # <<>> => SameDecisionAsPrimary
          /\ cleaned = <<>> =>
                (pc = "done" /\ exitCode = 1 /\ runCalls = 1 /\ Len(spawned) = 1)
    /\ (phase = "primary" /\ Len(generated) = 1 /\ ~generated[1].err
          /\ cleaned = <<>> /\ pc = "done") => runCalls = 1

\* bypass set: a danger-prefixed corrected command is run without its prefix
\* and without a prompt
C21_Witness ==
    /\ CorrectedDecided /\ yesSure /\ HasPrefix(cleaned, DangerPrefix)
    /\ Len(spawned) = 2 /\ spawned[2] = CmdLs /\ prompts = <<>>

\* C22: in every run, no command handed to the interpreter subprocess
\* (primary or corrected) begins with the danger prefix, for every provider
\* response, including one that repeats the prefix.
C22_PrefixNeverExecuted ==
    \A i \in 1..Len(spawned) : ~HasPrefix(spawned[i], DangerPrefix)

\* C23: when the model text is a fenced block (the line fence+bash, a
\* command line c, the closing fence line), GenerateCommand followed by
\* cleanCommand gives c; not the empty string, not the fence line.
C23_FencedBlockEndToEnd ==
    pstep = "cleaned" =>
        \A c \in FencedBodies :
            httpResult.text = Block(Bash, c) =>
                /\ endCmd = c
                /\ endCmd # <<>>
                /\ endCmd # Fence \o Bash

----------------------------------------------------------------------------
(* the provider registry *)

\* the provider most recently passed to Register under name n
MostRecent(log, n) ==
    LET idx == {i \in 1..Len(log) : log[i].name = n}
    IN  log[CHOOSE i \in idx : \A j \in idx : j <= i]

RegisteredNames(log) == {log[i].name : i \in 1..Len(log)}

\* the registry holds, under each registered name and no other, the provider
\* most recently registered under it
RegistryIsLatest ==
    /\ DOMAIN rreg = RegisteredNames(rlog)
    /\ \A n \in DOMAIN rreg : rreg[n].name = n /\ rreg[n] = MostRecent(rlog, n)

\* a Get answers with the provider most recently registered under the name
\* asked for, and with "not found" exactly when none was
GetIsLatest ==
    rgot.at = Len(rlog) =>
        /\ rgot.ok <=> rgot.name \in RegisteredNames(rlog)
        /\ rgot.ok => rgot.p.name = rgot.name /\ rgot.p = MostRecent(rlog, rgot.name)

\* a List holds at most one provider per name
ListOnePerName == \A p \in rlist : \A q \in rlist : p.name = q.name => p = q

\* a step that registers nothing leaves the registry as it was
LookupsDoNotWrite == (rlog' = rlog /\ rstep' = rstep) => rreg' = rreg

\* C24: after any sequence of Register calls the registry maps each name to
\* at most one provider, Get(n) returns a provider only if its Name() is n,
\* and that provider is the one most recently registered under n; Get and
\* List never change the registry.
C24_RegistryLastWriteWins ==
    /\ [](rstep = "calls" => RegistryIsLatest /\ GetIsLatest /\ ListOnePerName)
    /\ [][LookupsDoNotWrite]_vars

\* a name was registered twice with different providers, and a Get after
\* that answered with the second of them
C24_Witness ==
    /\ rstep = "calls" /\ Len(rlog) >= 3
    /\ \E i \in 1..Len(rlog) : \E j \in 1..Len(rlog) :
         /\ i < j /\ rlog[i].name = rlog[j].name /\ rlog[i] # rlog[j]
         /\ rgot.at = Len(rlog) /\ rgot.ok /\ rgot.name = rlog[j].name
         /\ rgot.p = rlog[j] /\ rgot.p = MostRecent(rlog, rgot.name)
    /\ Cardinality(rlist) >= 2

\* C25: after the startup registration from a configuration the registry
\* contains a key-based backend exactly when the configuration has an entry
\* for it with a non-empty key, always contains ollama, whether or not the
\* configuration has an entry for it, and always contains echo.
C25_RegisteredBackends ==
    rstep = "configured" =>
        /\ \A b \in KeyBackends :
             b \in DOMAIN rreg <=> (b \in DOMAIN rcfg /\ rcfg[b].key # "")
        /\ "ollama" \in DOMAIN rreg
        /\ "echo" \in DOMAIN rreg

----------------------------------------------------------------------------
(* the prompt builder *)

\* C26: BuildPrompt is deterministic: two calls with equal context (same
\* working directory, file sequence, vcs mapping and extra mapping, including
\* an extra mapping with two or more keys) and the same user request return
\* the identical prompt string.
C26_BuildPromptDeterministic ==
    \A i \in 1..Len(pouts) : \A j \in 1..Len(pouts) : pouts[i] = pouts[j]

----------------------------------------------------------------------------
(* backticks in the sanitizer's result *)

\* C27: for every input the result of cleanCommand contains no backtick,
\* wherever the backtick stood in the input.
C27_NoBacktickLeft ==
    cstep >= 1 => \A i \in 1..Len(out1) : out1[i] # BT

----------------------------------------------------------------------------
(* context gathering *)

\* how often the Gather of plugin n has been invoked
TimesGathered(n) == Cardinality({i \in 1..Len(gcalls) : gcalls[i] = n})

\* C28: gatherContext invokes Gather of every registered plugin exactly once,
\* continues with the remaining plugins when one returns an error, leaves a
\* vcs value absent when its command failed, and always returns a context: it
\* never stops anywhere but at its return.
C28_GatherNeverFails ==
    /\ \A n \in PluginNames : TimesGathered(n) <= 1
    /\ \A i \in 1..Len(gcalls) : gcalls[i] \in DOMAIN genv.plugins
    /\ gstep \in {"start", "list", "plugins"} => ENABLED NextGather
    /\ gstep = "returned" =>
         /\ gctx.set
         /\ \A n \in DOMAIN genv.plugins : TimesGathered(n) = 1
         /\ "branch" \in DOMAIN gctx.GitInfo <=> genv.branchOk
         /\ "status" \in DOMAIN gctx.GitInfo <=> genv.statusOk
         /\ \A n \in DOMAIN genv.plugins : genv.plugins[n].writes => n \in DOMAIN gctx.Extra

\* three plugins, the one visited first returned an error, both vcs commands
\* and the directory listing failed, and gatherContext has returned
C28_Witness ==
    /\ gstep = "returned" /\ Len(gcalls) = 3
    /\ genv.plugins[gcalls[1]].fails /\ ~genv.plugins[gcalls[3]].fails
    /\ ~genv.branchOk /\ ~genv.statusOk /\ ~genv.readDirOk
    /\ gctx.set /\ DOMAIN gctx.GitInfo = {}

----------------------------------------------------------------------------
(* the confirmation prompt *)

\* the step of the main flow from the confirmation prompt: Run returns
\* without a subprocess when the line read begins with n or N, and goes on to
\* spawn otherwise
ConfirmStep ==
    (pc = "confirm" /\ pc' # pc) =>
        /\ Len(prompts') = Len(prompts) + 1
        /\ IF BeginsWithN(prompts'[Len(prompts')].resp)
           THEN pc' = "returned" /\ spawned' = spawned /\ ~runErr'
           ELSE pc' = "spawn"

\* the step after an undeclined prompt starts the subprocess with the command
SpawnStep == (pc = "spawn" /\ pc' # pc) => spawned' = Append(spawned, cmd)

\* C29: at a confirmation prompt Run aborts if and only if the first character
\* of the line read is n or N; a blank line, any other text, blanks before an
\* n, and end of input or a failed read all go on to spawn the subprocess.
C29_AbortIffFirstCharN ==
    /\ [][ConfirmStep /\ SpawnStep]_vars
    /\ [](pc = "spawn" => ENABLED RunSpawn)

\* the first prompt was answered with " n", the second met the end of input,
\* and a subprocess was started after each
C29_Witness ==
    /\ Len(prompts) = 2 /\ Len(spawned) = 2
    /\ prompts[1].resp = <<" ", "n">> /\ prompts[2].eof
    /\ spawned[1] = prompts[1].cmd /\ spawned[2] = prompts[2].cmd

----------------------------------------------------------------------------
(* the subprocess's output *)

\* what the terminal has shown of one stream
Shown(st) ==
    Flatten([i \in 1..Len(xterm) |-> IF xterm[i].stream = st THEN xterm[i].text ELSE <<>>])

\* C30: the subprocess's standard output and standard error are captured
\* (returned to the caller, embedded in the correction prompt on failure) and
\* mirrored to the terminal while the subprocess is still running: every
\* piece written is visible before the subprocess has completed.
C30_CapturedAndMirroredLive ==
    /\ xstep \in {"exited", "returned", "prompted"} =>
         \A st \in Streams : Shown(st) = OnStream(xwritten, st)
    /\ xret.set =>
         /\ xret.stdout = OnStream(xwritten, "stdout")
         /\ xret.stderr = OnStream(xwritten, "stderr")
    /\ xstep = "prompted" =>
         \E i \in 1..Len(xprompt) : \E j \in 1..Len(xprompt) :
             /\ i < j
             /\ xprompt[i] = "Stderr: " /\ xprompt[j] = "Stdout: "
             /\ SubSeq(xprompt, i + 1, i + Len(xret.stderr)) = xret.stderr
             /\ SubSeq(xprompt, j + 1, j + Len(xret.stdout)) = xret.stdout

====
